---- MODULE Spec2Model ----
(***************************************************************************)
(* Video-Scraper: the Collector (scrape_videos.py, get_urls) and the       *)
(* Fetcher (download_videos.py, main + download_videos) over the shared    *)
(* CSV ledger and the output directory tree.                               *)
(*                                                                         *)
(* Strings are sequences of one-character strings, so that str.find,       *)
(* str.split, os.path.split and slicing are computed as Python computes    *)
(* them.  A pandas missing value is NaN, and None is Python's None; both   *)
(* are one-element sequences that no character string can equal.           *)
(***************************************************************************)
EXTENDS Integers, Sequences, FiniteSets, TLC

(* ------------------------------ bounds -------------------------------- *)
MaxRuns == 2      \* runs (Collector or Fetcher) started in one behaviour
MaxTarget == 2    \* largest per-class target of a Collector run
MaxElems == 2     \* DOM elements one search page yields
MaxCap == 2       \* largest --cap of a Fetcher run

(* ------------------------------ strings ------------------------------- *)
NaN == <<"NaN">>
None == <<"None">>

Y1 == <<"h","t","t","p","s",":","/","/","w","w","w",".","y","o","u","t","u","b","e",".","c","o","m","/","w","a","t","c","h","?","v","=","a","&","t","=","1">>
Y2 == <<"h","t","t","p","s",":","/","/","w","w","w",".","y","o","u","t","u","b","e",".","c","o","m","/","w","a","t","c","h","?","v","=","b">>
B1 == <<"h","t","t","p","s",":","/","/","w","w","w",".","b","i","l","i","b","i","l","i",".","c","o","m","/","v","i","d","e","o","/","c",".","d">>
B2 == <<"h","t","t","p","s",":","/","/","w","w","w",".","b","i","l","i","b","i","l","i",".","c","o","m","/","r","e","a","d","/","e">>
B3 == <<"h","t","t","p","s",":","/","/","w","w","w",".","b","i","l","i","b","i","l","i",".","c","o","m","/","v","i","d","e","o","/","f","/">>

\* the extension of download_videos, and a file no ledger row names
Ext == <<".","m","p","4">>
Old == <<"o","l","d",".","m","p","4">>

\* what the search page of each platform can hold as an element's href
YoutubeHrefs == {None, Y1, Y2}
BilibiliHrefs == {None, B1, B2, B3}
\* what an element's title can be: a text, or the empty string
Titles == {<<"t">>, <<>>}

\* the classes file, sorted; a run is given a prefix of it
AllClasses == <<"cat", "dog">>

\* s[i:j] of Python for 0 <= i and 0 <= j
Slice(s, i, j) ==
  LET hi == IF j < Len(s) THEN j ELSE Len(s)
  IN  IF i >= hi THEN <<>> ELSE SubSeq(s, i + 1, hi)

\* whether sub starts at 0-based offset i of s
StartsAt(s, sub, i) ==
  /\ i + Len(sub) <= Len(s)
  /\ \A k \in 1..Len(sub) : s[i + k] = sub[k]

\* str.find: the lowest 0-based offset of sub in s, or -1
Find(s, sub) ==
  LET hits == {i \in 0..Len(s) : StartsAt(s, sub, i)}
  IN  IF hits = {} THEN -1 ELSE CHOOSE i \in hits : \A j \in hits : i <= j

\* Python's `sub in s`
Contains(s, sub) == Find(s, sub) >= 0

\* the last 1-based position of "/" in s, or 0
LastSlash(s) ==
  LET at == {i \in 1..Len(s) : s[i] = "/"}
  IN  IF at = {} THEN 0 ELSE CHOOSE i \in at : \A j \in at : j <= i

RECURSIVE RStripSlash(_)
RStripSlash(s) ==
  IF s # <<>> /\ s[Len(s)] = "/" THEN RStripSlash(SubSeq(s, 1, Len(s) - 1)) ELSE s

\* os.path.split (posixpath): <<head, tail>>, the head without its trailing
\* slashes unless it is slashes only
PathSplit(p) ==
  LET i == LastSlash(p)
      head == SubSeq(p, 1, i)
      tail == SubSeq(p, i + 1, Len(p))
  IN  <<IF RStripSlash(head) = <<>> THEN head ELSE RStripSlash(head), tail>>

(* ------------------------------ the CSV ------------------------------- *)
\* to_csv writes a missing value as an empty field
WriteCell(c) == IF c = NaN THEN <<>> ELSE c
\* read_csv reads an empty field as a missing value
ReadCell(c) == IF c = <<>> THEN NaN ELSE c

WriteFlag(d) == IF d = "NaN" THEN "" ELSE d
ReadFlag(d) == IF d = "" THEN "NaN" ELSE d

WriteRow(r) ==
  [r EXCEPT !.video_title = WriteCell(@), !.video_name = WriteCell(@),
            !.download = WriteFlag(@)]
ReadRow(r) ==
  [r EXCEPT !.video_title = ReadCell(@), !.video_name = ReadCell(@),
            !.download = ReadFlag(@)]

\* DataFrame.to_csv(path, index=False): the whole file is rewritten
ToCsv(table) ==
  [exists |-> TRUE, named |-> table.named,
   rows |-> [i \in 1..Len(table.rows) |-> WriteRow(table.rows[i])]]
\* pd.read_csv(path)
ReadCsv(file) ==
  [named |-> file.named,
   rows |-> [i \in 1..Len(file.rows) |-> ReadRow(file.rows[i])]]

NoFile == [exists |-> FALSE, named |-> FALSE, rows |-> <<>>]
\* pd.DataFrame(columns=[class_id, class, video_id, video_title, video_url])
EmptyTable == [named |-> FALSE, rows |-> <<>>]


(* ------------------------------ state --------------------------------- *)
VARIABLES
  site,            \* the platform the ledger is kept for: its pages, its URLs
  csv,             \* the ledger file: [exists, named, rows]
  fs,              \* the output tree: [root, dirs], dirs[class_id] = file names
  pc,              \* where the running pipeline stands ("idle": none runs)
  args,            \* the running pipeline's arguments
  urls,            \* the Collector's table (urls of get_urls)
  videos,          \* the Fetcher's table (videos of main, download_videos)
  cid,             \* position in the class loop
  ri,              \* position in the row loop of the current class
  count_by_class,  \* count_by_class of download_videos
  count_tracker,   \* count_tracker of get_urls / download_videos
  runs,            \* runs started so far
  created,         \* history: the running Collector created the ledger file
  searched,        \* history: the running Collector issued a search query
  tried,           \* history: [ok, fail], rows the running Fetcher's primitive was invoked for
  ondisk,          \* history: rows whose <video_name><ext> was in their class directory at start
  last,            \* history: summary of the latest finished run
  prev             \* history: summary of the Fetcher run right before it, if any

vars == <<site, csv, fs, pc, args, urls, videos, cid, ri, count_by_class,
          count_tracker, runs, created, searched, tried, ondisk, last, prev>>

NoArgs == [kind |-> "none"]
NoTried == [ok |-> {}, fail |-> {}]
NoRun == [kind |-> "none", status |-> "none", platform |-> "", cap |-> -1,
          bad |-> FALSE, searched |-> FALSE, changed |-> FALSE,
          short |-> FALSE, ok |-> {}, fail |-> {}]

\* str.lower on the platform names
Lower(p) == IF p = "YouTube" THEN "youtube" ELSE p

\* the -p / platform arguments tried on a ledger kept for site s
Platforms(s) == {s, "vimeo"} \cup (IF s = "youtube" THEN {"YouTube"} ELSE {})

Rest ==
  /\ pc = "idle"
  /\ args = NoArgs
  /\ urls = EmptyTable
  /\ videos = EmptyTable
  /\ cid = 0
  /\ ri = 0
  /\ count_by_class = 0
  /\ count_tracker = <<>>
  /\ runs = 0
  /\ created = FALSE
  /\ searched = FALSE
  /\ tried = NoTried
  /\ ondisk = {}
  /\ last = NoRun
  /\ prev = NoRun

\* the output directory, made by hand, holding nothing
EmptyTree == [root |-> TRUE, dirs |-> {}, files |-> {}]

\* no ledger yet, an empty output directory
Init ==
  /\ site \in {"youtube", "bilibili"}
  /\ csv = NoFile
  /\ fs = EmptyTree
  /\ Rest

(* ------------------------------ Collector ----------------------------- *)
\* the elements a search page can hold
Elements(platform) ==
  LET hrefs == IF platform = "youtube" THEN YoutubeHrefs ELSE BilibiliHrefs
  IN  {[href |-> None, title |-> <<>>]}
      \cup {[href |-> h, title |-> t] : h \in hrefs \ {None}, t \in Titles}

Pages(platform) ==
  UNION {[1..n -> Elements(platform)] : n \in 0..MaxElems}

\* Python's `video_ not in omit_videos`, negated
InList(v, list) == \E i \in 1..Len(list) : list[i] = v

\* the loop of get_youtube_urls over the page's elements
RECURSIVE YoutubeLoop(_, _, _, _)
YoutubeLoop(elements, n, omit_videos, found) ==
  IF elements = <<>> THEN found
  ELSE LET elem == Head(elements)
           video == <<elem.title, elem.href>>
       IN  IF elem.href = None
           THEN YoutubeLoop(Tail(elements), n, omit_videos, found)
           ELSE IF ~InList(video, omit_videos)
           THEN IF Len(found) + 1 >= n
                THEN Append(found, video)
                ELSE YoutubeLoop(Tail(elements), n, omit_videos, Append(found, video))
           ELSE YoutubeLoop(Tail(elements), n, omit_videos, found)

get_youtube_urls(elements, n, omit_videos) ==
  [raised |-> FALSE, found |-> YoutubeLoop(elements, n, omit_videos, <<>>)]

\* the loop of get_bilibili_urls; `(url_ is None) | ('video' not in url_)`
\* evaluates both operands, and `in None` is a TypeError
RECURSIVE BilibiliLoop(_, _, _, _)
BilibiliLoop(elements, n, omit_videos, found) ==
  IF elements = <<>> THEN [raised |-> FALSE, found |-> found]
  ELSE LET elem == Head(elements)
           video == <<elem.title, elem.href>>
       IN  IF elem.href = None
           THEN [raised |-> TRUE, found |-> <<>>]
           ELSE IF ~Contains(elem.href, <<"v","i","d","e","o">>)
           THEN BilibiliLoop(Tail(elements), n, omit_videos, found)
           ELSE IF ~InList(video, omit_videos)
           THEN IF Len(found) + 1 >= n
                THEN [raised |-> FALSE, found |-> Append(found, video)]
                ELSE BilibiliLoop(Tail(elements), n, omit_videos, Append(found, video))
           ELSE BilibiliLoop(Tail(elements), n, omit_videos, found)

get_bilibili_urls(elements, n, omit_videos) ==
  BilibiliLoop(elements, n, omit_videos, <<>>)

new_record(c, cls, count) == [class_id |-> c, class |-> cls, count |-> count]

\* the positions of the table's rows of class c, in table order
RowsOf(table, c) ==
  LET F[i \in 0..Len(table.rows)] ==
        IF i = 0 THEN <<>>
        ELSE IF table.rows[i].class_id = c THEN Append(F[i - 1], i) ELSE F[i - 1]
  IN  F[Len(table.rows)]

\* urls.loc[urls['class_id'] == cid_, ['video_title', 'video_url']].values.tolist()
OmitVideos(table, c) ==
  LET at == RowsOf(table, c)
  IN  [k \in 1..Len(at) |-> <<table.rows[at[k]].video_title, table.rows[at[k]].video_url>>]

\* the slip of numbering a class's new rows from 0 again
VideoIdsFromZero(n_exg, n) == [k \in 1..(n - n_exg) |-> k - 1]

\* range(n_exg, n)
VideoIds(n_exg, n) == [k \in 1..(n - n_exg) |-> n_exg + k - 1]

\* urls_by_cls with its class_id, class and video_id columns set
NewRows(found, c, cls, n_exg) ==
  LET ids == VideoIds(n_exg, n_exg + Len(found))
  IN  [k \in 1..Len(found) |->
        [class_id |-> c, class |-> cls, video_id |-> ids[k],
         video_title |-> found[k][1], video_url |-> found[k][2],
         video_name |-> NaN, download |-> "NaN"]]

RowLeq(a, b) ==
  \/ a.class_id < b.class_id
  \/ a.class_id = b.class_id /\ a.video_id <= b.video_id

RECURSIVE InsertRow(_, _)
InsertRow(sorted, r) ==
  IF sorted = <<>> THEN <<r>>
  ELSE IF RowLeq(sorted[Len(sorted)], r) THEN Append(sorted, r)
  ELSE Append(InsertRow(SubSeq(sorted, 1, Len(sorted) - 1), r), sorted[Len(sorted)])

\* urls.sort_values(['class_id', 'video_id']).reset_index(drop=True)
SortRows(rows) ==
  LET F[i \in 0..Len(rows)] == IF i = 0 THEN <<>> ELSE InsertRow(F[i - 1], rows[i])
  IN  F[Len(rows)]

\* num_videos as given: an int, or a list of one target per class (or not)
IntTargets == {[isInt |-> TRUE, v |-> <<n>>] : n \in 1..MaxTarget}
ListTargets ==
  {[isInt |-> FALSE, v |-> s] :
     s \in UNION {[1..k -> 1..MaxTarget] : k \in 1..Len(AllClasses)}}

\* a finished Collector run's summary
CollectSummary(status, bad, queried, changed, short) ==
  [NoRun EXCEPT !.kind = "collect", !.status = status, !.bad = bad,
                !.searched = queried, !.changed = changed, !.short = short]

\* the pipeline's memory is gone when its process ends
Idle ==
  /\ pc' = "idle"
  /\ args' = NoArgs
  /\ urls' = EmptyTable
  /\ videos' = EmptyTable
  /\ cid' = 0
  /\ ri' = 0
  /\ count_by_class' = 0
  /\ count_tracker' = <<>>
  /\ created' = FALSE
  /\ searched' = FALSE
  /\ tried' = NoTried
  /\ ondisk' = {}

\* get_urls up to its class loop: load or create the ledger, then num_videos
CollectStart(given, platform) ==
  /\ pc = "idle"
  /\ runs < MaxRuns
  /\ runs' = runs + 1
  /\ csv' = IF csv.exists THEN csv ELSE ToCsv(EmptyTable)
  /\ UNCHANGED <<site, fs>>
  /\ IF ~given.isInt /\ Len(given.v) # Len(AllClasses)
     THEN /\ Idle
          /\ prev' = NoRun
          /\ last' = CollectSummary("AssertionError", TRUE, FALSE, ~csv.exists, FALSE)
     ELSE /\ pc' = "collect"
          /\ args' = [kind |-> "collect", classes |-> AllClasses,
                      platform |-> Lower(platform),
                      num_videos |-> IF given.isInt
                                     THEN [i \in 1..Len(AllClasses) |-> given.v[1]]
                                     ELSE given.v]
          /\ urls' = IF csv.exists THEN ReadCsv(csv) ELSE EmptyTable
          /\ cid' = 0
          /\ count_tracker' = <<>>
          /\ created' = ~csv.exists
          /\ searched' = FALSE
          /\ UNCHANGED <<videos, ri, count_by_class, tried, ondisk, last, prev>>

\* one pass of the class loop for a class that already has its target
CollectSkip ==
  /\ pc = "collect"
  /\ cid < Len(args.classes)
  /\ LET omit_videos == OmitVideos(urls, cid)
         n == args.num_videos[cid + 1]
         n_exg == Len(omit_videos)
     IN  /\ n_exg >= n
         /\ count_tracker' = Append(count_tracker, new_record(cid, args.classes[cid + 1], n_exg))
  /\ cid' = cid + 1
  /\ UNCHANGED <<site, csv, fs, pc, args, urls, videos, ri, count_by_class, runs,
                 created, searched, tried, ondisk, last, prev>>

\* one pass of the class loop that searches the platform
CollectSearch ==
  /\ pc = "collect"
  /\ cid < Len(args.classes)
  /\ args.platform \in {"youtube", "bilibili"}
  /\ LET omit_videos == OmitVideos(urls, cid)
         n == args.num_videos[cid + 1]
         n_exg == Len(omit_videos)
         cls == args.classes[cid + 1]
     IN  /\ n_exg < n
         /\ \E elements \in Pages(args.platform) :
              LET got == IF args.platform = "youtube"
                         THEN get_youtube_urls(elements, n - n_exg, omit_videos)
                         ELSE get_bilibili_urls(elements, n - n_exg, omit_videos)
              IN  IF got.raised
                  THEN /\ Idle
                       /\ prev' = NoRun
                       /\ last' = CollectSummary("TypeError", FALSE, TRUE, created, FALSE)
                       /\ UNCHANGED <<site, csv, fs, runs>>
                  ELSE /\ urls' = [urls EXCEPT !.rows = @ \o NewRows(got.found, cid, cls, n_exg)]
                       /\ count_tracker' = Append(count_tracker,
                                              new_record(cid, cls, n_exg + Len(got.found)))
                       /\ cid' = cid + 1
                       /\ searched' = TRUE
                       /\ UNCHANGED <<site, csv, fs, pc, args, videos, ri, count_by_class,
                                      runs, created, tried, ondisk, last, prev>>

\* one pass of the class loop on a platform that is neither: ValueError
CollectUnsupported ==
  /\ pc = "collect"
  /\ cid < Len(args.classes)
  /\ args.platform \notin {"youtube", "bilibili"}
  /\ Len(OmitVideos(urls, cid)) < args.num_videos[cid + 1]
  /\ Idle
  /\ prev' = NoRun
  /\ last' = CollectSummary("ValueError", TRUE, searched, created, FALSE)
  /\ UNCHANGED <<site, csv, fs, runs>>

\* after the loop: sort and rewrite the ledger file
CollectFinish ==
  /\ pc = "collect"
  /\ cid = Len(args.classes)
  /\ LET sorted == [urls EXCEPT !.rows = SortRows(@)]
     IN  /\ csv' = ToCsv(sorted)
         /\ prev' = NoRun
         /\ last' = CollectSummary("done",
                                   args.platform \notin {"youtube", "bilibili"},
                                   searched,
                                   created \/ ToCsv(sorted) # csv,
                                   \E i \in 1..Len(count_tracker) :
                                      count_tracker[i].count < args.num_videos[i])
  /\ Idle
  /\ UNCHANGED <<site, fs, runs>>

Collect ==
  \/ \E given \in IntTargets \cup ListTargets, platform \in Platforms(site) :
        CollectStart(given, platform)
  \/ CollectSkip
  \/ CollectSearch
  \/ CollectUnsupported
  \/ CollectFinish

(* ------------------------------ Fetcher ------------------------------- *)
\* _get_youtube_video_id: [raised, id]; the assert fails on a URL without 'youtube'
get_youtube_video_id(video_url) ==
  LET sp == PathSplit(video_url)
      video_id == IF Len(sp[2]) = 0 THEN PathSplit(sp[1])[2] ELSE sp[2]
      ss == Find(video_id, <<"v", "=">>) + 2
      ee == ss + Find(Slice(video_id, ss, Len(video_id)), <<"&">>)
  IN  [raised |-> ~Contains(video_url, <<"y","o","u","t","u","b","e">>),
       id |-> Slice(video_id, ss, ee)]

\* _get_bilibili_video_id
get_bilibili_video_id(video_url) ==
  LET sp == PathSplit(video_url)
      video_id == IF Len(sp[2]) = 0 THEN PathSplit(sp[1])[2] ELSE sp[2]
  IN  [raised |-> ~Contains(video_url, <<"b","i","l","i","b","i","l","i">>),
       id |-> video_id]

\* video_file.split('.')[0]
Stem(video_file) ==
  LET dot == Find(video_file, <<".">>)
  IN  IF dot < 0 THEN video_file ELSE Slice(video_file, 0, dot)

\* the file the download primitive leaves for a row on success
VideoFile(video_name) == video_name \o Ext

\* main, lines 171-175: the video_name column when the ledger has none
DeriveNames(table, platform) ==
  LET get(u) == IF platform = "youtube" THEN get_youtube_video_id(u)
                ELSE get_bilibili_video_id(u)
  IN  IF table.named \/ platform \notin {"youtube", "bilibili"}
      THEN [raised |-> FALSE, table |-> table]
      ELSE [raised |-> \E i \in 1..Len(table.rows) : get(table.rows[i].video_url).raised,
            table |-> [named |-> TRUE,
                       rows |-> [i \in 1..Len(table.rows) |->
                                  [table.rows[i] EXCEPT
                                     !.video_name = get(table.rows[i].video_url).id]]]]

\* whether the up-front scan marks a row: some file of some class directory
\* has the row's video_name as its stem
Scanned(row, tree) ==
  \E f \in tree.files : row.video_name = Stem(f[2])

\* main, lines 178-182: reset every flag, then mark what the tree holds
ScanTree(table, tree) ==
  [table EXCEPT !.rows =
     [i \in 1..Len(table.rows) |->
        [table.rows[i] EXCEPT
           !.download = IF Scanned(table.rows[i], tree) THEN "True" ELSE "False"]]]

\* videos[['class_id', 'class']].drop_duplicates().values.tolist()
ClassesOf(table) ==
  LET F[i \in 0..Len(table.rows)] ==
        IF i = 0 THEN <<>>
        ELSE LET c == <<table.rows[i].class_id, table.rows[i].class>>
             IN  IF InList(c, F[i - 1]) THEN F[i - 1] ELSE Append(F[i - 1], c)
  IN  F[Len(table.rows)]

\* sum(videos_by_class['download'])
Downloaded(table, c) ==
  {i \in 1..Len(table.rows) :
     table.rows[i].class_id = c /\ table.rows[i].download = "True"}

\* the slip of comparing the count with > where the code has >=
CapReachedLate(count, cap) == cap # -1 /\ count > cap

\* `if cap is not None: if count_by_class >= cap: break`; -1 stands for None
CapReached(count, cap) == cap # -1 /\ count >= cap

RECURSIVE SumCounts(_)
SumCounts(tracker) ==
  IF tracker = <<>> THEN 0 ELSE Head(tracker).count + SumCounts(Tail(tracker))

\* a finished Fetcher run's summary
FetchSummary(status, platform, cap, changed, t) ==
  [NoRun EXCEPT !.kind = "fetch", !.status = status, !.platform = platform,
                !.cap = cap, !.changed = changed, !.ok = t.ok, !.fail = t.fail]

BeforeFetch == IF last.kind = "fetch" THEN last ELSE NoRun

\* main up to the first class of download_videos: load the ledger, name the
\* videos, scan the output tree, dispatch on the platform
FetchStart(platform, cap) ==
  /\ pc = "idle"
  /\ runs < MaxRuns
  /\ runs' = runs + 1
  /\ UNCHANGED <<site, csv, fs>>
  /\ LET derived == DeriveNames(ReadCsv(csv), platform)
         scanned == ScanTree(derived.table, fs)
         \* read_csv of no file; a failed assert of the id functions; listdir
         \* of no directory; videos['video_name'] of a table without the column
         crash == IF ~csv.exists THEN "FileNotFoundError"
                  ELSE IF derived.raised THEN "AssertionError"
                  ELSE IF ~fs.root THEN "FileNotFoundError"
                  ELSE IF ~derived.table.named /\ fs.files # {} THEN "KeyError"
                  ELSE "none"
     IN  IF crash # "none"
         THEN /\ Idle
              /\ prev' = BeforeFetch
              /\ last' = FetchSummary(crash, platform, cap, FALSE, NoTried)
         ELSE IF platform \notin {"youtube", "bilibili"}
         THEN /\ Idle
              /\ prev' = BeforeFetch
              /\ last' = FetchSummary("done", platform, cap, FALSE, NoTried)
         ELSE /\ pc' = "fetch_class"
              /\ args' = [kind |-> "fetch", platform |-> platform, cap |-> cap,
                          classes |-> ClassesOf(scanned)]
              /\ videos' = scanned
              /\ cid' = 0
              /\ count_tracker' = <<>>
              /\ tried' = NoTried
              /\ ondisk' = {i \in 1..Len(derived.table.rows) :
                              LET r == derived.table.rows[i]
                              IN  /\ r.video_name # NaN
                                  /\ <<r.class_id, VideoFile(r.video_name)>> \in fs.files}
              /\ UNCHANGED <<urls, ri, count_by_class, created, searched, last, prev>>

\* download_videos, lines 32-38: the next class, its count, its directory
FetchClassBegin ==
  /\ pc = "fetch_class"
  /\ cid < Len(args.classes)
  /\ LET c == args.classes[cid + 1][1]
     IN  /\ count_by_class' = Cardinality(Downloaded(videos, c))
         /\ fs' = [fs EXCEPT !.dirs = @ \cup {c}]
  /\ ri' = 1
  /\ pc' = "fetch_row"
  /\ UNCHANGED <<site, csv, args, urls, videos, cid, count_tracker, runs, created,
                 searched, tried, ondisk, last, prev>>

\* the row the loop stands at, and whether the loop is over
RowAt == RowsOf(videos, args.classes[cid + 1][1])[ri]
RowsLeft == ri <= Len(RowsOf(videos, args.classes[cid + 1][1]))

\* lines 47-48: a row marked downloaded is passed over
FetchContinue ==
  /\ pc = "fetch_row"
  /\ RowsLeft
  /\ ~CapReached(count_by_class, args.cap)
  /\ videos.rows[RowAt].download = "True"
  /\ ri' = ri + 1
  /\ UNCHANGED <<site, csv, fs, pc, args, urls, videos, cid, count_by_class,
                 count_tracker, runs, created, searched, tried, ondisk, last, prev>>

\* lines 50-56: the download primitive is invoked for the row
FetchDownload ==
  /\ pc = "fetch_row"
  /\ RowsLeft
  /\ ~CapReached(count_by_class, args.cap)
  /\ videos.rows[RowAt].download # "True"
  /\ LET i == RowAt
         row == videos.rows[i]
         record(download) ==
           /\ videos' = [videos EXCEPT !.rows[i].download =
                                          IF download THEN "True" ELSE "False"]
           /\ count_by_class' = count_by_class + (IF download THEN 1 ELSE 0)
           /\ tried' = IF download THEN [tried EXCEPT !.ok = @ \cup {i}]
                       ELSE [tried EXCEPT !.fail = @ \cup {i}]
           /\ ri' = ri + 1
           /\ UNCHANGED <<site, csv, pc, args, urls, cid, count_tracker, runs,
                          created, searched, ondisk, last, prev>>
     IN  IF row.video_name = NaN
         THEN IF args.platform = "youtube"
              \* row['video_name'] + ext is a TypeError, outside any try
              THEN /\ Idle
                   /\ prev' = BeforeFetch
                   /\ last' = FetchSummary("TypeError", args.platform, args.cap, FALSE, tried)
                   /\ UNCHANGED <<site, csv, fs, runs>>
              \* check_output raises inside the primitive's try
              ELSE /\ fs' = fs
                   /\ record(FALSE)
         ELSE \E download \in BOOLEAN :
                /\ fs' = IF download
                         THEN [fs EXCEPT !.files = @ \cup {<<row.class_id, VideoFile(row.video_name)>>}]
                         ELSE fs
                /\ record(download)

\* the row loop ends (no row left, or the cap is reached); lines 58-64
FetchClassEnd ==
  /\ pc = "fetch_row"
  /\ ~RowsLeft \/ CapReached(count_by_class, args.cap)
  /\ LET c == args.classes[cid + 1]
     IN  /\ count_tracker' = Append(count_tracker, new_record(c[1], c[2], count_by_class))
         /\ fs' = IF \E f \in fs.files : f[1] = c[1] THEN fs
                  ELSE [fs EXCEPT !.dirs = @ \ {c[1]}]
  /\ cid' = cid + 1
  /\ pc' = "fetch_class"
  /\ UNCHANGED <<site, csv, args, urls, videos, ri, count_by_class, runs, created,
                 searched, tried, ondisk, last, prev>>

\* lines 66-75 and main's to_csv
FetchFinish ==
  /\ pc = "fetch_class"
  /\ cid = Len(args.classes)
  /\ LET count == SumCounts(count_tracker)
     IN  IF count = 0 /\ fs.dirs # {}
         \* os.rmdir of a directory that holds something: OSError
         THEN /\ UNCHANGED <<csv, fs>>
              /\ last' = FetchSummary("OSError", args.platform, args.cap, FALSE, tried)
         ELSE /\ fs' = IF count > 0 THEN fs ELSE [fs EXCEPT !.root = FALSE]
              /\ csv' = ToCsv(videos)
              /\ last' = FetchSummary("done", args.platform, args.cap,
                                      ToCsv(videos) # csv, tried)
  /\ prev' = BeforeFetch
  /\ Idle
  /\ UNCHANGED <<site, runs>>

Caps == {-1} \cup 0..MaxCap

Fetch ==
  \/ \E platform \in Platforms(site), cap \in Caps : FetchStart(platform, cap)
  \/ FetchClassBegin
  \/ FetchContinue
  \/ FetchDownload
  \/ FetchClassEnd
  \/ FetchFinish

(* --------------------------- specifications --------------------------- *)
\* Collector runs from no ledger
SpecCollect == Init /\ [][Collect]_vars

\* what a page of results can come to, for a ledger of videos titled alike
Finds(s, n) ==
  LET hrefs == IF s = "youtube" THEN {Y1, Y2} ELSE {B1, B3}
  IN  UNION {[1..k -> {<<(<<"t">>), h>> : h \in hrefs}] : k \in 0..n}

\* the ledgers one Collector run writes from no ledger
Collected(s) ==
  {ToCsv([named |-> FALSE,
          rows |-> SortRows(NewRows(f0, 0, AllClasses[1], 0)
                            \o NewRows(f1, 1, AllClasses[2], 0))]) :
     f0 \in Finds(s, MaxTarget), f1 \in Finds(s, 1)}

\* an output directory made by hand, empty or with a file left in class 0's
Trees == {EmptyTree, [root |-> TRUE, dirs |-> {0}, files |-> {<<0, Old>>}]}

InitFetch ==
  /\ site \in {"youtube", "bilibili"}
  /\ csv \in Collected(site) \cup {NoFile}
  /\ fs \in Trees
  /\ Rest

\* Fetcher runs on a collected ledger.  The output directory holds class
\* directories only; a plain file in it would end main at its second listdir.
SpecFetch == InitFetch /\ [][Fetch]_vars

\* both pipelines, run one after the other in any order
Next == Collect \/ Fetch
Spec == Init /\ [][Next]_vars

(* ------------------------------- claims ------------------------------- *)
Supported == {"youtube", "bilibili"}
\* no pipeline runs, and the latest run was a Fetcher run that reached its end
FetchDone == pc = "idle" /\ last.kind = "fetch" /\ last.status = "done"
                         /\ last.platform \in Supported
InFetch == pc \in {"fetch_class", "fetch_row"}
ClassIds == 0..(Len(AllClasses) - 1)
LedgerRows(c) == {i \in 1..Len(csv.rows) : csv.rows[i].class_id = c}
LedgerTrue(c) == {i \in LedgerRows(c) : csv.rows[i].download = "True"}
Max(a, b) == IF a >= b THEN a ELSE b

\* C1: in the download pass of a Fetcher run, every row whose class directory
\* held <video_name><ext> when the run started is marked downloaded, and the
\* download primitive has not been invoked for it.
C1_Resume ==
  InFetch => \A i \in ondisk :
               /\ videos.rows[i].download = "True"
               /\ i \notin tried.ok \cup tried.fail

\* C2 as claimed: after a Fetcher run with cap k, a class that had at least k
\* rows not marked at the start has at most k rows with download = true.
C2_CapAsClaimed ==
  FetchDone /\ last.cap # -1 =>
    \A c \in ClassIds :
      LET before == LedgerTrue(c) \ last.ok
      IN  Cardinality(LedgerRows(c) \ before) >= last.cap
            => Cardinality(LedgerTrue(c)) <= last.cap

\* C2 as amended: ... has at most max(k, p) rows with download = true, p being
\* the number of its rows the up-front scan had marked.
C2_Cap ==
  FetchDone /\ last.cap # -1 =>
    \A c \in ClassIds :
      LET before == LedgerTrue(c) \ last.ok
      IN  Cardinality(LedgerRows(c) \ before) >= last.cap
            => Cardinality(LedgerTrue(c)) <= Max(last.cap, Cardinality(before))

\* a run with cap 1 stopped a class at its first download and left a row alone
C2_Witness ==
  /\ FetchDone
  /\ last.cap = 1
  /\ \E c \in ClassIds :
       /\ LedgerTrue(c) \subseteq last.ok
       /\ Cardinality(LedgerTrue(c)) = 1
       /\ \E i \in LedgerRows(c) : i \notin last.ok \cup last.fail

\* two rows are the same scraped video: class, URL and title as the ledger
\* file holds them
SameVideo(a, b) ==
  /\ a.class_id = b.class_id
  /\ a.video_url = b.video_url
  /\ WriteCell(a.video_title) = WriteCell(b.video_title)

\* C3: no pass of the Collector's class loop appends a row whose
\* (video_title, video_url) the ledger already holds for that class.
C3_Dedup ==
  [][pc = "collect" /\ pc' = "collect" =>
       \A j \in (Len(urls.rows) + 1)..Len(urls'.rows) :
         \A i \in 1..Len(urls.rows) : ~SameVideo(urls.rows[i], urls'.rows[j])]_vars

\* C4: a Fetcher run right after a finished Fetcher run, with the same cap and
\* platform and the same outcome for every row both tried, finishes, leaves
\* the ledger file as it was, and tries no row the first run downloaded.
C4_Idempotent ==
  ( /\ pc = "idle"
    /\ last.kind = "fetch" /\ prev.kind = "fetch" /\ prev.status = "done"
    /\ last.cap = prev.cap /\ last.platform = prev.platform
    /\ last.ok \cap prev.fail = {} /\ last.fail \cap prev.ok = {} )
  => /\ last.status = "done"
     /\ ~last.changed
     /\ (last.ok \cup last.fail) \cap prev.ok = {}

\* C5: a row the ledger file marks downloaded stays marked in the file, and
\* the download primitive is not invoked for it.
C5_Monotone ==
  /\ [](\A i \in tried.ok \cup tried.fail : csv.rows[i].download # "True")
  /\ [][\A i \in 1..Len(csv.rows) :
          csv.rows[i].download = "True" =>
            i <= Len(csv'.rows) /\ csv'.rows[i].download = "True"]_vars

\* C6: no two rows of the ledger file share (class_id, video_url).
C6_Unique ==
  \A i, j \in 1..Len(csv.rows) :
    i < j => ~( /\ csv.rows[i].class_id = csv.rows[j].class_id
                /\ csv.rows[i].video_url = csv.rows[j].video_url )

\* C7: after a Fetcher run, every row marked downloaded has its file
\* <video_name><ext> in its own class directory.
C7_FlagSound ==
  FetchDone =>
    \A i \in 1..Len(csv.rows) :
      csv.rows[i].download = "True" =>
        <<csv.rows[i].class_id, VideoFile(csv.rows[i].video_name)>> \in fs.files

\* C8: after a Fetcher run a class none of whose rows is marked downloaded has
\* no directory; and a run that downloaded nothing removes the root and still
\* finishes: its os.rmdir does not raise.
C8_Cleanup ==
  /\ FetchDone =>
       /\ \A c \in ClassIds : LedgerRows(c) # {} /\ LedgerTrue(c) = {} => c \notin fs.dirs
       /\ (\A c \in ClassIds : LedgerTrue(c) = {}) => ~fs.root
  /\ pc = "idle" /\ last.kind = "fetch" => last.status # "OSError"

\* C9: a Collector run with an unsupported platform or a num_videos list of
\* the wrong length raises, having issued no search and having neither
\* created nor changed the ledger file.
C9_ConfigFatal ==
  pc = "idle" /\ last.kind = "collect" /\ last.bad =>
    /\ last.status # "done"
    /\ ~last.searched
    /\ ~last.changed

\* C10: the video_ids of each class's rows in the ledger file are exactly
\* 0, 1, ..., k-1, k being the number of the class's rows.
C10_Dense ==
  \A c \in ClassIds :
    LET at == RowsOf(csv, c)
    IN  \A k \in 1..Len(at) : csv.rows[at[k]].video_id = k - 1

\* a second run came short of a target: class 0 has ids 0, 1 and class 1 id 0
C10_Witness ==
  /\ pc = "idle" /\ last.kind = "collect" /\ last.status = "done" /\ last.short
  /\ runs = 2
  /\ Cardinality(LedgerRows(0)) = 2
  /\ Cardinality(LedgerRows(1)) = 1

====
